---------------------------- MODULE Spec2Model ----------------------------
(***************************************************************************)
(* Model of the few-shot corpus store / selector (few_shot.py) and of the  *)
(* dataset annotation pipeline (dataset_processor.py).                     *)
(*                                                                         *)
(* Python values that cross an untyped boundary (JSON documents, the       *)
(* classifier's response) are modelled as tagged values of one record      *)
(* shape, so that a string, a number, a list, null and an absent key can   *)
(* be told apart the way isinstance / dict.get tell them apart.            *)
(***************************************************************************)
EXTENDS Integers, Sequences, FiniteSets, TLC

VARIABLES
    text,                 \* normalize_metadata: the `text` argument
    metadata,             \* normalize_metadata: the `metadata` argument
    normalized_metadata,  \* normalize_metadata: the returned bundle
    backfill,             \* load_posts: the length derived by categorize_length
    raw_data,             \* process_*: the raw list being processed
    post_index,           \* process_*: number of items of raw_data consumed
    processed_posts,      \* process_*: the records produced so far
    responses,            \* what the annotation collaborator did, per item
    pstatus,              \* process_*: "idle", "running" or "done"
    invocations,          \* process_*: the items chain.invoke was called for,
                          \* in the order of the calls
    in_flight,            \* process_*: the items whose chain.invoke call has
                          \* not returned yet
    df,                   \* FewShotPosts.df: the corpus records
    unique_tags,          \* FewShotPosts.unique_tags
    document,             \* the JSON document the constructor loaded
    query,                \* get_filtered_posts: <<length, language, tag>>
    selected,             \* get_filtered_posts: the records returned
    last_op,              \* the FewShotPosts method that ran last
    ok,                   \* what add_posts / merge_datasets returned
    other_document,       \* merge_datasets: <<the document it read>>, until
                          \* it has returned
    raised,               \* the exception the last FewShotPosts call raised
    files,                \* the data directory: file name -> content
    STREAMLIT_AVAILABLE,  \* whether `import streamlit` succeeded
    session_state,        \* st.session_state: current_dataset, dataset_changed
    available,            \* <<what get_available_datasets returned>>, if it
                          \* was called since the directory last changed
    raw_datasets,         \* <<what get_raw_datasets returned>>, likewise
    current,              \* <<what get_current_dataset has just returned>>
    last_set,             \* <<the path of the latest set_current_dataset call>>
    raw_file_path,        \* <<the raw path process_existing_raw_dataset has
                          \* just read>>
    uploaded_file,        \* <<the upload process_uploaded_dataset has just
                          \* been handed, with what the call raised>>
    prompt,               \* get_prompt: <<the examples part of the prompt>>
    saved_document,       \* save_posts: <<the document it wrote>>
    resaved_document,     \* <<the document written by loading that document
                          \* and saving again>>
    file_validation,      \* <<what validate_dataset_file returned or raised>>
    manager_validation    \* <<what DatasetManager.validate_dataset returned>>

normVars == <<text, metadata, normalized_metadata, backfill>>
procVars == <<raw_data, post_index, processed_posts, responses, pstatus,
             invocations, in_flight>>

corpusVars == <<df, unique_tags, document, query, selected, last_op, ok,
               other_document, raised>>

registryVars == <<files, STREAMLIT_AVAILABLE, session_state, available,
                 raw_datasets, current, last_set, raw_file_path,
                 uploaded_file>>

callerVars == <<prompt, saved_document, resaved_document, file_validation,
               manager_validation>>

vars == <<normVars, procVars, corpusVars, registryVars, callerVars>>

-----------------------------------------------------------------------------
(* Bounds *)

MaxTextLen == 11   \* longest text, in characters (up to 12 lines)
MaxTags    == 5    \* longest tags list a classifier response carries
MaxRaw     == 3    \* longest raw list handed to the processor
MaxDoc     == 2    \* most objects in a corpus document
MaxNew     == 1    \* most posts handed to one add_posts call
MaxRows    == 3    \* most records the corpus grows to
MaxUpload  == 1    \* most posts in an uploaded raw dataset
MaxChanges == 2    \* most counted changes of the current dataset

-----------------------------------------------------------------------------
(* Python values *)

Absent  == [kind |-> "absent", str |-> "", num |-> 0, items |-> <<>>]
Null    == [kind |-> "null",   str |-> "", num |-> 0, items |-> <<>>]
Str(s)  == [kind |-> "str",    str |-> s,  num |-> 0, items |-> <<>>]
Num(n)  == [kind |-> "num",    str |-> "", num |-> n, items |-> <<>>]
List(q) == [kind |-> "list",   str |-> "", num |-> 0, items |-> q]

\* float('nan'): what json.load gives for the NaN that json.dump writes
NaN     == [kind |-> "nan",    str |-> "", num |-> 0, items |-> <<>>]

\* dict.get(key, default): the default replaces an absent key only
Get(v, default) == IF v.kind = "absent" THEN default ELSE v

\* `v in [s1, s2, ...]` for a list of string literals
InStrings(v, S) == v.kind = "str" /\ v.str \in S

-----------------------------------------------------------------------------
(* Texts: sequences of characters; NL is the newline character *)

NL    == "\n"
Chars == {"a", NL}

Texts == UNION {[1..n -> Chars] : n \in 0..MaxTextLen}

\* text.split('\n'): the segments between newlines (always at least one)
RECURSIVE Split(_)
Split(t) ==
    IF \A i \in 1..Len(t) : t[i] # NL
    THEN <<t>>
    ELSE LET k == CHOOSE i \in 1..Len(t) :
                      t[i] = NL /\ \A j \in 1..(i-1) : t[j] # NL
         IN  <<SubSeq(t, 1, k-1)>> \o Split(SubSeq(t, k+1, Len(t)))

\* len(text.split('\n'))
LineCount(t) == Len(Split(t))

\* the value under a post's 'text' key (absent in a DataFrame row: NaN)
NoText      == [kind |-> "absent", chars |-> <<>>]
NullText    == [kind |-> "null",   chars |-> <<>>]
PostText(t) == [kind |-> "str",    chars |-> t]
NaNText     == [kind |-> "nan",    chars |-> <<>>]

Range(q) == {q[k] : k \in 1..Len(q)}

-----------------------------------------------------------------------------
(* few_shot.py: FewShotPosts.categorize_length *)

\* variant: the boundary moved to <= 5, as in the normalizer
categorize_length_le5(line_count) ==
    IF line_count <= 5 THEN "Short"
    ELSE IF line_count <= 10 THEN "Medium"
    ELSE "Long"

categorize_length(line_count) ==
    IF line_count < 5 THEN "Short"
    ELSE IF 5 <= line_count /\ line_count <= 10 THEN "Medium"
    ELSE "Long"

-----------------------------------------------------------------------------
(* dataset_processor.py: DatasetProcessor.normalize_metadata *)

valid_languages == {"English", "Hinglish"}
valid_tones     == {"Professional", "Casual", "Humorous", "Inspirational",
                    "Educational"}
valid_audiences == {"Students", "Professionals", "Job Seekers",
                    "Entrepreneurs", "General"}

\* the if/elif/else on the recomputed line count
NormalizerLength(line_count) ==
    IF line_count <= 5 THEN "Short"
    ELSE IF line_count <= 10 THEN "Medium"
    ELSE "Long"

\* tags = metadata.get('tags', []); str -> [tags]; not a list -> []
NormalizerTags(v) ==
    LET tags == Get(v, List(<<>>))
    IN  IF tags.kind = "str" THEN <<tags.str>>
        ELSE IF tags.kind # "list" THEN <<>>
        ELSE tags.items

\* variant: tags[:3]
Slice3(q) == SubSeq(q, 1, IF Len(q) < 3 THEN Len(q) ELSE 3)

\* variant: no truncation
SliceAll(q) == q

\* tags[:4]
Slice4(q) == SubSeq(q, 1, IF Len(q) < 4 THEN Len(q) ELSE 4)

\* variant: the membership test is skipped
Unvalidated(v, valid, default) == Get(v, Str(default))

\* value = metadata.get(key, default); if value not in valid: value = default
Validated(v, valid, default) ==
    LET value == Get(v, Str(default))
    IN  IF InStrings(value, valid) THEN value ELSE Str(default)

\* variant: a supplied line_count is trusted over the text
normalize_metadata_supplied(m, t) ==
    LET line_count == IF m.line_count.kind = "num" THEN m.line_count.num
                      ELSE LineCount(t)
    IN  [line_count      |-> Num(line_count),
         language        |-> Validated(m.language, valid_languages, "English"),
         tags            |-> List(Slice4(NormalizerTags(m.tags))),
         length          |-> Str(NormalizerLength(line_count)),
         tone            |-> Validated(m.tone, valid_tones, "Professional"),
         target_audience |-> Validated(m.target_audience, valid_audiences,
                                       "General")]

normalize_metadata(m, t) ==
    LET line_count == LineCount(t)
    IN  [line_count      |-> Num(line_count),
         language        |-> Validated(m.language, valid_languages, "English"),
         tags            |-> List(Slice4(NormalizerTags(m.tags))),
         length          |-> Str(NormalizerLength(line_count)),
         tone            |-> Validated(m.tone, valid_tones, "Professional"),
         target_audience |-> Validated(m.target_audience, valid_audiences,
                                       "General")]

-----------------------------------------------------------------------------
(* few_shot.py: the Corpus Store and the Example Selector *)

\* the keys of a corpus object / the columns of the DataFrame
Fields == {"text", "engagement", "line_count", "language", "tags", "length"}

\* pd.DataFrame(): no columns, no rows
EmptyFrame == [columns |-> {}, rows |-> <<>>]

\* pd.DataFrame(columns=[...]): the six columns, no rows
EmptyCorpusFrame == [columns |-> Fields, rows |-> <<>>]

\* DataFrame.empty
IsEmpty(frame) == frame.columns = {} \/ frame.rows = <<>>

\* a value as a cell of a DataFrame: a NaN value is a missing cell
Cell(v) == IF v.kind = "nan" THEN Absent ELSE v

\* an object as a row of a DataFrame
Row(post) ==
    [text       |-> IF post.text.kind = "nan" THEN NoText ELSE post.text,
     engagement |-> Cell(post.engagement),
     line_count |-> Cell(post.line_count),
     language   |-> Cell(post.language),
     tags       |-> Cell(post.tags),
     length     |-> Cell(post.length)]

\* one row per object, top to bottom
RECURSIVE Rows(_)
Rows(posts) ==
    IF posts = <<>> THEN <<>> ELSE <<Row(Head(posts))>> \o Rows(Tail(posts))

\* pd.json_normalize(posts): a column per key that occurs, a row per object,
\* NaN (Absent) where an object lacks the key or has NaN
json_normalize(posts) ==
    [columns |-> {f \in Fields : \E k \in 1..Len(posts) :
                                     posts[k][f].kind # "absent"},
     rows    |-> Rows(posts)]

\* variant: the new frame is put in front
concat_reversed(a, b) ==
    [columns |-> a.columns \cup b.columns, rows |-> b.rows \o a.rows]

\* pd.concat([a, b], ignore_index=True)
concat(a, b) ==
    [columns |-> a.columns \cup b.columns, rows |-> a.rows \o b.rows]

\* FewShotPosts.ensure_list
ensure_list(tags) ==
    IF tags.kind = "str" THEN List(<<tags.str>>)
    ELSE IF tags.kind = "list" THEN tags
    ELSE List(<<>>)

\* categorize_length applied to a cell: every comparison with NaN is False
categorize_cell(line_count) ==
    IF line_count.kind = "num" THEN Str(categorize_length(line_count.num))
    ELSE Str("Long")

\* the tags of the rows whose tags cell is a list, as a set (list(set(...)))
TagSet(rows) ==
    UNION {Range(rows[k].tags.items) :
               k \in {j \in 1..Len(rows) : rows[j].tags.kind = "list"}}

\* the documents a path can hold
Missing      == [kind |-> "missing", items |-> <<>>]  \* no such file
Invalid      == [kind |-> "invalid", items |-> <<>>]  \* not JSON
Scalar       == [kind |-> "scalar",  items |-> <<>>]  \* a JSON number / string
Object(o)    == [kind |-> "object",  items |-> <<o>>] \* a bare JSON object
Array(posts) == [kind |-> "array",   items |-> posts] \* a JSON array of objects

\* variant: the missing file is reported to the caller
FileNotFound_raised ==
    [df |-> EmptyFrame, unique_tags |-> {}, raised |-> "FileNotFoundError"]

\* except FileNotFoundError: a frame of the six columns without rows
FileNotFound ==
    [df |-> EmptyCorpusFrame, unique_tags |-> {}, raised |-> "none"]

\* except Exception: a frame without columns; nothing is raised
LoadFailed ==
    [df |-> EmptyFrame, unique_tags |-> {}, raised |-> "none"]

\* what load_posts leaves in self.df and self.unique_tags
load_posts(doc) ==
    IF doc.kind = "missing"
    THEN FileNotFound
    ELSE IF doc.kind \in {"invalid", "scalar"}
    THEN LoadFailed
    ELSE
    LET posts   == doc.items
        n       == Len(posts)
        df0     == json_normalize(posts)
        needLC  == "line_count" \notin df0.columns
        failLC  == needLC /\ ("text" \notin df0.columns
                              \/ \E k \in 1..n : posts[k].text.kind # "str")
        rows1   == [k \in 1..n |->
                      IF needLC
                      THEN [df0.rows[k] EXCEPT
                              !.line_count = Num(LineCount(posts[k].text.chars))]
                      ELSE df0.rows[k]]
        needLen == "length" \notin df0.columns
        failLen == needLen /\ \E k \in 1..n :
                                  rows1[k].line_count.kind \notin {"num", "absent"}
        rows2   == [k \in 1..n |->
                      IF needLen
                      THEN [rows1[k] EXCEPT
                              !.length = categorize_cell(rows1[k].line_count)]
                      ELSE rows1[k]]
        rows3   == [k \in 1..n |->
                      IF "engagement" \notin df0.columns
                      THEN [rows2[k] EXCEPT !.engagement = Num(0)]
                      ELSE rows2[k]]
        hasTags == "tags" \in df0.columns
        rows4   == [k \in 1..n |->
                      IF hasTags
                      THEN [rows3[k] EXCEPT !.tags = ensure_list(rows3[k].tags)]
                      ELSE rows3[k]]
    IN  IF failLC \/ failLen
        THEN LoadFailed
        ELSE [df |-> [columns |-> df0.columns
                                      \cup {"line_count", "length", "engagement"},
                      rows    |-> rows4],
              unique_tags |-> IF hasTags THEN TagSet(rows4) ELSE {},
              raised |-> "none"]

\* df.to_dict(orient='records'): every record has a key per column, NaN in
\* the cells that are missing
to_dict(frame) ==
    [k \in 1..Len(frame.rows) |->
        LET row     == frame.rows[k]
            Value(f) == IF f \in frame.columns /\ row[f].kind = "absent"
                        THEN NaN ELSE row[f]
        IN  [text       |-> IF "text" \in frame.columns
                               /\ row.text.kind = "absent"
                            THEN NaNText ELSE row.text,
             engagement |-> Value("engagement"),
             line_count |-> Value("line_count"),
             language   |-> Value("language"),
             tags       |-> Value("tags"),
             length     |-> Value("length")]]

\* save_posts: the JSON array json.dump writes
save_posts(frame) == Array(to_dict(frame))

\* variant: only the primary (first) tag is compared
RowMatches_first_tag(row, length, language, tag) ==
    /\ (IF row.tags.kind = "list" /\ Len(row.tags.items) > 0
        THEN row.tags.items[1] = tag ELSE FALSE)
    /\ row.language = Str(language)
    /\ row.length = Str(length)

\* the mask of get_filtered_posts for one row
RowMatches(row, length, language, tag) ==
    /\ (IF row.tags.kind = "list" THEN tag \in Range(row.tags.items) ELSE FALSE)
    /\ row.language = Str(language)
    /\ row.length = Str(length)

\* self.df[mask]: the rows whose mask entry is True, top to bottom
RECURSIVE Filtered(_, _, _, _)
Filtered(rows, length, language, tag) ==
    IF rows = <<>> THEN <<>>
    ELSE (IF RowMatches(Head(rows), length, language, tag)
          THEN <<Head(rows)>> ELSE <<>>)
         \o Filtered(Tail(rows), length, language, tag)

\* get_filtered_posts: [] for an empty frame and for a missing column
\* (KeyError caught at 74-76), else the masked rows as records
get_filtered_posts(frame, length, language, tag) ==
    IF IsEmpty(frame) THEN <<>>
    ELSE IF ~({"tags", "language", "length"} \subseteq frame.columns) THEN <<>>
    ELSE Filtered(frame.rows, length, language, tag)

\* the loop of add_posts over one post (lines 94-103)
PreparedPost(post) ==
    LET p1 == IF post.line_count.kind = "absent"
              THEN [post EXCEPT !.line_count =
                        Num(LineCount(IF post.text.kind = "absent" THEN <<>>
                                      ELSE post.text.chars))]
              ELSE post
        p2 == IF p1.length.kind = "absent"
              THEN [p1 EXCEPT !.length = Str(categorize_length(p1.line_count.num))]
              ELSE p1
        p3 == IF p2.engagement.kind = "absent"
              THEN [p2 EXCEPT !.engagement = Num(0)]
              ELSE p2
    IN  IF p3.tags.kind = "absent" THEN [p3 EXCEPT !.tags = List(<<>>)] ELSE p3

\* the loop raises: None.split, or a line_count that does not compare with 5
PrepareFails(post) ==
    \/ post.line_count.kind = "absent" /\ post.text.kind = "null"
    \/ post.length.kind = "absent"
       /\ post.line_count.kind \notin {"absent", "num"}

\* what add_posts leaves in self.df / self.unique_tags, and what it returns
add_posts(frame, tags, new_posts) ==
    IF \E k \in 1..Len(new_posts) : PrepareFails(new_posts[k])
    THEN [df |-> frame, unique_tags |-> tags, ok |-> FALSE]
    ELSE LET new_df == json_normalize([k \in 1..Len(new_posts) |->
                                           PreparedPost(new_posts[k])])
             joined == concat(frame, new_df)
         IN  \* self.df is assigned; the tags update raises on a frame
             \* without a tags column and on one without rows (sum() is 0)
             IF "tags" \notin joined.columns \/ joined.rows = <<>>
             THEN [df |-> joined, unique_tags |-> tags, ok |-> FALSE]
             ELSE [df |-> joined, unique_tags |-> TagSet(joined.rows),
                   ok |-> TRUE]

\* variant: of the records sharing a text, the last one is kept
RECURSIVE drop_duplicates_keep_last(_)
drop_duplicates_keep_last(rows) ==
    IF rows = <<>> THEN <<>>
    ELSE LET back == drop_duplicates_keep_last(Tail(rows))
         IN  IF \E k \in 1..Len(back) : back[k].text = Head(rows).text
             THEN back
             ELSE <<Head(rows)>> \o back

\* drop_duplicates(subset=['text'], keep='first')
RECURSIVE drop_duplicates(_)
drop_duplicates(rows) ==
    IF rows = <<>> THEN <<>>
    ELSE LET front == drop_duplicates(SubSeq(rows, 1, Len(rows) - 1))
             last  == rows[Len(rows)]
         IN  IF \E k \in 1..Len(front) : front[k].text = last.text
             THEN front
             ELSE Append(front, last)

\* variant: a merge with nothing is reported as done
merge_datasets_reports_done(frame, tags, other_doc) ==
    LET other_fs == load_posts(other_doc)
    IN  IF IsEmpty(other_fs.df)
        THEN [df |-> frame, unique_tags |-> tags, ok |-> TRUE]
        ELSE LET joined == concat(frame, other_fs.df)
                 merged == [joined EXCEPT !.rows = drop_duplicates(joined.rows)]
             IN  IF "tags" \notin merged.columns
                 THEN [df |-> merged, unique_tags |-> tags, ok |-> FALSE]
                 ELSE [df |-> merged, unique_tags |-> TagSet(merged.rows),
                       ok |-> TRUE]

\* variant: the tags of the other corpus are added to the known ones
merge_datasets_union_tags(frame, tags, other_doc) ==
    LET other_fs == load_posts(other_doc)
    IN  IF IsEmpty(other_fs.df)
        THEN [df |-> frame, unique_tags |-> tags, ok |-> FALSE]
        ELSE LET joined == concat(frame, other_fs.df)
                 merged == [joined EXCEPT !.rows = drop_duplicates(joined.rows)]
             IN  IF "tags" \notin merged.columns
                 THEN [df |-> merged, unique_tags |-> tags, ok |-> FALSE]
                 ELSE [df |-> merged,
                       unique_tags |-> tags \cup other_fs.unique_tags,
                       ok |-> TRUE]

\* what merge_datasets leaves in self.df / self.unique_tags, and returns
merge_datasets(frame, tags, other_doc) ==
    LET other_fs == load_posts(other_doc)
    IN  IF IsEmpty(other_fs.df)
        THEN [df |-> frame, unique_tags |-> tags, ok |-> FALSE]
        ELSE LET joined == concat(frame, other_fs.df)
                 merged == [joined EXCEPT !.rows = drop_duplicates(joined.rows)]
             IN  IF "tags" \notin merged.columns
                 THEN [df |-> merged, unique_tags |-> tags, ok |-> FALSE]
                 ELSE [df |-> merged, unique_tags |-> TagSet(merged.rows),
                       ok |-> TRUE]

-----------------------------------------------------------------------------
(* Inputs of the pure functions *)

\* an object with none of the metadata keys: {}
EmptyDict ==
    [line_count |-> Absent, language |-> Absent, tags |-> Absent,
     length |-> Absent, tone |-> Absent, target_audience |-> Absent]

TagPool == <<"AI", "Jobs", "Career", "Python", "College", "Startup",
             "Health", "Travel">>

\* tags values a response can carry: absent, null, a string, a number, a list
TagsValues ==
    {Absent, Null, Str("AI"), Num(3)}
        \cup {List(SubSeq(TagPool, 1, n)) : n \in 0..MaxTags}

LanguageValues == {Absent, Null, Str("English"), Str("Hinglish"), Str("hinglish")}
ToneValues     == {Absent, Str("Angry")} \cup {Str(s) : s \in valid_tones}
AudienceValues == {Absent, Num(1)} \cup {Str(s) : s \in valid_audiences}

\* supplied (line_count, length) pairs, right or wrong for the text
SuppliedLengths ==
    {<<Absent, Absent>>, <<Num(1), Str("Short")>>, <<Num(2), Str("Short")>>,
     <<Num(6), Str("Medium")>>, <<Num(3), Str("Long")>>, <<Num(5), Str("Tiny")>>}

RawMetadata ==
    {[line_count |-> p[1], language |-> lg, tags |-> tg, length |-> p[2],
      tone |-> tn, target_audience |-> au] :
        p \in SuppliedLengths, lg \in LanguageValues, tg \in TagsValues,
        tn \in ToneValues, au \in AudienceValues}

\* metadata that only carries a line_count / length of its own
LengthMetadata ==
    {[EmptyDict EXCEPT !.line_count = p[1], !.length = p[2]] :
        p \in SuppliedLengths}

SampleTexts == {<<>>, <<"a", NL, "a">>, <<NL, NL, "a", NL, NL, NL>>}

-----------------------------------------------------------------------------
(* The pure functions as calls *)

\* normalized_metadata = self.normalize_metadata(metadata, text)
NormalizeCall ==
    /\ normalized_metadata = <<>>
    /\ normalized_metadata' = <<normalize_metadata(metadata, text)>>
    /\ UNCHANGED <<text, metadata, backfill>>
    /\ UNCHANGED <<procVars, corpusVars, registryVars, callerVars>>

\* the bundle returned is normalized once more with the same text
NormalizeAgain ==
    /\ normalized_metadata # <<>>
    /\ metadata # normalized_metadata[1]
    /\ metadata' = normalized_metadata[1]
    /\ normalized_metadata' = <<normalize_metadata(normalized_metadata[1], text)>>
    /\ UNCHANGED <<text, backfill>>
    /\ UNCHANGED <<procVars, corpusVars, registryVars, callerVars>>

\* load_posts: line_count from the text, length from categorize_length
CategorizeCall ==
    /\ backfill = <<>>
    /\ backfill' = <<categorize_length(LineCount(text))>>
    /\ UNCHANGED <<text, metadata, normalized_metadata>>
    /\ UNCHANGED <<procVars, corpusVars, registryVars, callerVars>>

\* A file's content is a document: Invalid, Scalar, Dict or Array(records),
\* a record having the keys the registry reads, text and tags.
Dict == [kind |-> "object", items |-> <<>>]   \* a JSON object, no post

\* st.session_state before anything is stored in it
EmptySession == [current_dataset |-> <<>>, dataset_changed |-> <<>>]

\* no registry call is in progress and there is no data directory content
RegistryIdle ==
    /\ files = [f \in {} |-> Dict]
    /\ STREAMLIT_AVAILABLE = TRUE
    /\ session_state = EmptySession
    /\ available = <<>>
    /\ raw_datasets = <<>>
    /\ current = <<>>
    /\ last_set = <<>>
    /\ raw_file_path = <<>>
    /\ uploaded_file = <<>>

\* no prompt is built, nothing is saved and nothing is validated
CallerIdle ==
    /\ prompt = <<>>
    /\ saved_document = <<>>
    /\ resaved_document = <<>>
    /\ file_validation = <<>>
    /\ manager_validation = <<>>

\* no corpus is under study
CorpusIdle ==
    /\ df = EmptyFrame
    /\ unique_tags = {}
    /\ document = Missing
    /\ query = <<>>
    /\ selected = <<>>
    /\ last_op = "none"
    /\ ok = TRUE
    /\ other_document = <<>>
    /\ raised = "none"

\* nothing is being processed
ProcIdle ==
    /\ raw_data = <<>>
    /\ post_index = 0
    /\ processed_posts = <<>>
    /\ responses = <<>>
    /\ pstatus = "idle"
    /\ invocations = <<>>
    /\ in_flight = {}

\* every metadata object against a few texts
InitNorm ==
    /\ text \in SampleTexts
    /\ metadata \in RawMetadata
    /\ normalized_metadata = <<>>
    /\ backfill = <<>>
    /\ ProcIdle
    /\ CorpusIdle
    /\ RegistryIdle
    /\ CallerIdle

NextNorm == NormalizeCall \/ NormalizeAgain

SpecNorm == InitNorm /\ [][NextNorm]_vars

\* every text against the two length rules
InitLength ==
    /\ text \in Texts
    /\ metadata \in LengthMetadata
    /\ normalized_metadata = <<>>
    /\ backfill = <<>>
    /\ ProcIdle
    /\ CorpusIdle
    /\ RegistryIdle
    /\ CallerIdle

NextLength == NormalizeCall \/ CategorizeCall

SpecLength == InitLength /\ [][NextLength]_vars

-----------------------------------------------------------------------------
(* dataset_processor.py: the Raw Dataset Processor *)

\* 'text' in post and post['text'] is truthy
HasText(post) == post.text.kind = "str" /\ post.text.chars # <<>>

\* what the collaborator does for one call
Raised    == [kind |-> "raise",   meta |-> EmptyDict]  \* chain.invoke raises
NonJson   == [kind |-> "nonjson", meta |-> EmptyDict]  \* json_parser.parse raises
NonDict   == [kind |-> "nondict", meta |-> EmptyDict]  \* JSON, but no object
Parsed(m) == [kind |-> "dict",    meta |-> m]          \* a JSON object
NoCall    == [kind |-> "nocall",  meta |-> EmptyDict]  \* it is not invoked

\* variant: the fallback bundle carries no tag
get_default_metadata_untagged(t) ==
    LET line_count == LineCount(t)
    IN  [line_count      |-> Num(line_count),
         language        |-> Str("English"),
         tags            |-> List(<<>>),
         length          |-> Str(NormalizerLength(line_count)),
         tone            |-> Str("Professional"),
         target_audience |-> Str("General")]

get_default_metadata(t) ==
    LET line_count == LineCount(t)
    IN  [line_count      |-> Num(line_count),
         language        |-> Str("English"),
         tags            |-> List(<<"General">>),
         length          |-> Str(NormalizerLength(line_count)),
         tone            |-> Str("Professional"),
         target_audience |-> Str("General")]

\* variant: no except clause, a failed call propagates (<<>>)
extract_post_metadata_raising(t, r) ==
    IF r.kind = "dict" THEN <<normalize_metadata(r.meta, t)>> ELSE <<>>

\* the bundle returned, as <<bundle>>; <<>> would be an exception leaving it.
\* invoke, parse and normalize are inside the try; whatever raises there
\* (a non-object has no .get) ends in get_default_metadata
extract_post_metadata(t, r) ==
    IF r.kind = "dict"
    THEN <<normalize_metadata(r.meta, t)>>
    ELSE <<get_default_metadata(t)>>

\* {'text': text, 'engagement': post.get('engagement', 0), **metadata}
ProcessedPost(post, md) ==
    [text            |-> post.text.chars,
     engagement      |-> Get(post.engagement, Num(0)),
     line_count      |-> md.line_count,
     language        |-> md.language,
     tags            |-> md.tags,
     length          |-> md.length,
     tone            |-> md.tone,
     target_audience |-> md.target_audience]

\* variant: only the presence of the key is tested
process_single_post_any_text(post, r) ==
    IF post.text.kind = "absent" THEN <<>>
    ELSE LET md == extract_post_metadata(post.text.chars, r)
         IN  IF md = <<>> THEN <<>> ELSE <<ProcessedPost(post, md[1])>>

\* <<record>>, or <<>> for None (no text, or an exception caught at 108-110)
process_single_post(post, r) ==
    IF ~HasText(post) THEN <<>>
    ELSE LET md == extract_post_metadata(post.text.chars, r)
         IN  IF md = <<>> THEN <<>> ELSE <<ProcessedPost(post, md[1])>>

\* raw posts: with and without text, with and without engagement
RawPosts ==
    {[text |-> NoText,                engagement |-> Num(7)],
     [text |-> NullText,              engagement |-> Absent],
     [text |-> PostText(<<>>),        engagement |-> Num(5)],
     [text |-> PostText(<<"a">>),     engagement |-> Absent],
     [text |-> PostText(<<"a", NL, "a", NL, "a">>), engagement |-> Num(10)],
     [text |-> PostText(<<NL, NL, "a", NL, NL, NL>>), engagement |-> Num(10)]}

RawLists == UNION {[1..n -> RawPosts] : n \in 0..MaxRaw}

\* objects the collaborator may answer with
Responses ==
    {EmptyDict,
     [line_count |-> Num(9), language |-> Str("Hinglish"),
      tags |-> List(<<"AI", "Jobs">>), length |-> Str("Long"),
      tone |-> Str("Casual"), target_audience |-> Str("Students")],
     [line_count |-> Absent, language |-> Str("French"),
      tags |-> List(<<"AI", "Jobs", "Career", "Python", "College">>),
      length |-> Absent, tone |-> Null, target_audience |-> Str("General")],
     [EmptyDict EXCEPT !.tags = Str("AI")]}

Outcomes == {Raised, NonJson, NonDict} \cup {Parsed(m) : m \in Responses}

\* json.load of the raw document / upload; the loop starts
StartProcess ==
    /\ pstatus = "idle"
    /\ \E raw \in RawLists : raw_data' = raw
    /\ post_index' = 0
    /\ processed_posts' = <<>>
    /\ responses' = <<>>
    /\ pstatus' = "running"
    /\ invocations' = <<>>
    /\ in_flight' = {}
    /\ UNCHANGED <<normVars, corpusVars, registryVars, callerVars>>

\* one iteration of `for post in raw_data`
ProcessStep ==
    /\ pstatus = "running"
    /\ post_index < Len(raw_data)
    /\ LET post == raw_data[post_index + 1]
       IN  \E r \in (IF HasText(post) THEN Outcomes ELSE {NoCall}) :
               LET processed_post == process_single_post(post, r)
               IN  /\ processed_posts' =
                          (IF processed_post # <<>>
                           THEN Append(processed_posts, processed_post[1])
                           ELSE processed_posts)
                   /\ responses' = Append(responses, r)
                   /\ invocations' = (IF HasText(post)
                                      THEN Append(invocations, post_index + 1)
                                      ELSE invocations)
    /\ post_index' = post_index + 1
    /\ UNCHANGED <<raw_data, pstatus, in_flight>>
    /\ UNCHANGED <<normVars, corpusVars, registryVars, callerVars>>

\* the loop is over: the records are handed to save_processed_dataset
FinishProcess ==
    /\ pstatus = "running"
    /\ post_index = Len(raw_data)
    /\ pstatus' = "done"
    /\ in_flight = {}
    /\ UNCHANGED <<raw_data, post_index, processed_posts, responses,
                   invocations, in_flight>>
    /\ UNCHANGED <<normVars, corpusVars, registryVars, callerVars>>

NormIdle ==
    /\ text = <<>>
    /\ metadata = EmptyDict
    /\ normalized_metadata = <<>>
    /\ backfill = <<>>

InitProc == NormIdle /\ ProcIdle /\ CorpusIdle /\ RegistryIdle /\ CallerIdle

NextProc == StartProcess \/ ProcessStep \/ FinishProcess

SpecProc == InitProc /\ [][NextProc]_vars

\* The iteration taken apart: process_single_post returns None for an item
\* without text (no call), or calls chain.invoke and, once that has
\* returned or raised, returns the record.  The loop calls
\* process_single_post for the next item when it has returned for this one.

\* variant: the call for the next item is made while one is outstanding
InvokeCollaborator_batched ==
    /\ pstatus = "running"
    /\ post_index + Cardinality(in_flight) < Len(raw_data)
    /\ LET k == post_index + Cardinality(in_flight) + 1
       IN  /\ HasText(raw_data[k])
           /\ invocations' = Append(invocations, k)
           /\ in_flight' = in_flight \cup {k}
    /\ UNCHANGED <<raw_data, post_index, processed_posts, responses, pstatus>>
    /\ UNCHANGED <<normVars, corpusVars, registryVars, callerVars>>

\* process_single_post(post) for an item with text: up to chain.invoke
InvokeCollaborator ==
    /\ pstatus = "running"
    /\ post_index < Len(raw_data)
    /\ in_flight = {}
    /\ HasText(raw_data[post_index + 1])
    /\ invocations' = Append(invocations, post_index + 1)
    /\ in_flight' = {post_index + 1}
    /\ UNCHANGED <<raw_data, post_index, processed_posts, responses, pstatus>>
    /\ UNCHANGED <<normVars, corpusVars, registryVars, callerVars>>

\* process_single_post(post) for an item without text: None, no call
SkipItem ==
    /\ pstatus = "running"
    /\ post_index < Len(raw_data)
    /\ in_flight = {}
    /\ ~HasText(raw_data[post_index + 1])
    /\ responses' = Append(responses, NoCall)
    /\ post_index' = post_index + 1
    /\ UNCHANGED <<raw_data, processed_posts, pstatus, invocations, in_flight>>
    /\ UNCHANGED <<normVars, corpusVars, registryVars, callerVars>>

\* what the collaborator does for a call that is outstanding
CallOutcomes == {Raised, NonDict, Parsed(EmptyDict)}

\* chain.invoke returns or raises; the record of the item is appended
ReceiveResponse ==
    /\ pstatus = "running"
    /\ \E k \in in_flight :
           /\ k = post_index + 1
           /\ \E r \in CallOutcomes :
                  LET processed_post == process_single_post(raw_data[k], r)
                  IN  /\ processed_posts' =
                             (IF processed_post # <<>>
                              THEN Append(processed_posts, processed_post[1])
                              ELSE processed_posts)
                      /\ responses' = Append(responses, r)
           /\ post_index' = k
           /\ in_flight' = in_flight \ {k}
    /\ UNCHANGED <<raw_data, pstatus, invocations>>
    /\ UNCHANGED <<normVars, corpusVars, registryVars, callerVars>>

NextSequential ==
    StartProcess \/ InvokeCollaborator \/ SkipItem \/ ReceiveResponse
        \/ FinishProcess

SpecSequential == InitProc /\ [][NextSequential]_vars

-----------------------------------------------------------------------------
(* few_shot.py: the corpus as a state machine *)

\* objects of a corpus document / posts handed to add_posts
Objects ==
    {[text |-> PostText(<<"a">>), engagement |-> Num(5), line_count |-> Num(1),
      language |-> Str("English"), tags |-> List(<<"AI", "Jobs">>),
      length |-> Str("Short")],
     [text |-> PostText(<<"a", NL, "a">>), engagement |-> Num(9),
      line_count |-> Num(2), language |-> Str("English"),
      tags |-> List(<<"Jobs", "AI">>), length |-> Str("Short")],
     [text |-> PostText(<<"a", NL, "a">>), engagement |-> Absent,
      line_count |-> Absent, language |-> Str("english"),
      tags |-> Str("AI"), length |-> Absent],
     [text |-> PostText(<<NL, NL, "a", NL, NL, NL>>), engagement |-> Num(2),
      line_count |-> Num(6), language |-> Str("Hinglish"),
      tags |-> List(<<"ai", "Jobs">>), length |-> Str("Medium")],
     [text |-> PostText(<<NL, NL, NL, NL>>), engagement |-> Num(7),
      line_count |-> Absent, language |-> Absent, tags |-> Absent,
      length |-> Absent]}

PostLists(n) == UNION {[1..k -> Objects] : k \in 0..n}

Documents ==
    {Missing, Invalid, Scalar} \cup {Object(o) : o \in Objects}
        \cup {Array(posts) : posts \in PostLists(MaxDoc)}

QueryLengths   == {"Short", "Medium"}
QueryLanguages == {"English", "Hinglish"}
QueryTags      == {"AI", "Jobs", "ai"}

\* FewShotPosts(file_path): __init__ runs load_posts
Construct ==
    \E doc \in Documents :
        /\ document = doc
        /\ df = load_posts(doc).df
        /\ unique_tags = load_posts(doc).unique_tags
        /\ raised = load_posts(doc).raised
        /\ query = <<>>
        /\ selected = <<>>
        /\ last_op = "init"
        /\ ok = TRUE
        /\ other_document = <<>>

\* get_filtered_posts(length, language, tag): the call, up to its return
GetFilteredPosts ==
    /\ query = <<>>
    /\ other_document = <<>>
    /\ \E length \in QueryLengths, language \in QueryLanguages,
          tag \in QueryTags :
           /\ query' = <<length, language, tag>>
           /\ selected' = get_filtered_posts(df, length, language, tag)
    /\ UNCHANGED <<df, unique_tags, document, last_op, ok, other_document,
                   raised>>
    /\ UNCHANGED <<normVars, procVars, registryVars, callerVars>>

\* the caller has taken the returned records
ReturnPosts ==
    /\ query # <<>>
    /\ query' = <<>>
    /\ selected' = <<>>
    /\ UNCHANGED <<df, unique_tags, document, last_op, ok, other_document,
                   raised>>
    /\ UNCHANGED <<normVars, procVars, registryVars, callerVars>>

\* add_posts(new_posts)
AddPosts ==
    /\ query = <<>>
    /\ other_document = <<>>
    /\ \E new_posts \in PostLists(MaxNew) :
           /\ Len(df.rows) + Len(new_posts) <= MaxRows
           /\ LET after == add_posts(df, unique_tags, new_posts)
              IN  /\ df' = after.df
                  /\ unique_tags' = after.unique_tags
                  /\ ok' = after.ok
    /\ last_op' = "add"
    /\ UNCHANGED <<document, query, selected, other_document, raised>>
    /\ UNCHANGED <<normVars, procVars, registryVars, callerVars>>

\* merge_datasets(other_file_path): the call, up to its return
MergeDatasets ==
    /\ query = <<>>
    /\ other_document = <<>>
    /\ \E other \in Documents :
           /\ Len(df.rows) + Len(other.items) <= MaxRows
           /\ other_document' = <<other>>
           /\ LET after == merge_datasets(df, unique_tags, other)
              IN  /\ df' = after.df
                  /\ unique_tags' = after.unique_tags
                  /\ ok' = after.ok
    /\ last_op' = "merge"
    /\ UNCHANGED <<document, query, selected, raised>>
    /\ UNCHANGED <<normVars, procVars, registryVars, callerVars>>

\* merge_datasets has returned
ReturnMerged ==
    /\ other_document # <<>>
    /\ other_document' = <<>>
    /\ UNCHANGED <<df, unique_tags, document, query, selected, last_op, ok,
                   raised>>
    /\ UNCHANGED <<normVars, procVars, registryVars, callerVars>>

\* save_posts(file_path)
SavePosts ==
    /\ query = <<>>
    /\ other_document = <<>>
    /\ saved_document' = <<save_posts(df)>>
    /\ resaved_document' = <<>>
    /\ UNCHANGED <<prompt, file_validation, manager_validation>>
    /\ UNCHANGED <<normVars, procVars, corpusVars, registryVars>>

\* FewShotPosts(file_path).save_posts(file_path) on the document saved
LoadAndSave ==
    /\ saved_document # <<>>
    /\ resaved_document = <<>>
    /\ resaved_document' = <<save_posts(load_posts(saved_document[1]).df)>>
    /\ UNCHANGED <<prompt, saved_document, file_validation,
                   manager_validation>>
    /\ UNCHANGED <<normVars, procVars, corpusVars, registryVars>>

InitCorpus == NormIdle /\ ProcIdle /\ Construct /\ RegistryIdle /\ CallerIdle

NextCorpus ==
    GetFilteredPosts \/ ReturnPosts \/ AddPosts \/ MergeDatasets \/ ReturnMerged

SpecCorpus == InitCorpus /\ [][NextCorpus]_vars

\* variant: the loop is left after the third example
RECURSIVE ExamplesFrom_three(_, _)
ExamplesFrom_three(examples, i) ==
    IF i >= Len(examples) THEN <<>>
    ELSE <<[number |-> i + 1, post_text |-> examples[i + 1].text]>>
         \o (IF i = 2 THEN <<>> ELSE ExamplesFrom_three(examples, i + 1))

\* `for i, post in enumerate(examples)` from index i on: "Example {i+1}"
\* with the text of the post, and break when i == 1
RECURSIVE ExamplesFrom(_, _)
ExamplesFrom(examples, i) ==
    IF i >= Len(examples) THEN <<>>
    ELSE <<[number |-> i + 1, post_text |-> examples[i + 1].text]>>
         \o (IF i = 1 THEN <<>> ELSE ExamplesFrom(examples, i + 1))

\* get_prompt: what follows the fixed part of the prompt, for the examples
\* that fs.get_filtered_posts returned: whether the heading of the examples
\* ("9) Use the writing style ...") is there, and the examples appended
get_prompt(examples) ==
    [heading  |-> Len(examples) > 0,
     examples |-> ExamplesFrom(examples, 0)]

\* get_prompt(length, language, tag, fs=fs): the call, up to its return
GetPrompt ==
    /\ query = <<>>
    /\ other_document = <<>>
    /\ \E length \in QueryLengths, language \in QueryLanguages,
          tag \in QueryTags :
           LET examples == get_filtered_posts(df, length, language, tag)
           IN  /\ query' = <<length, language, tag>>
               /\ selected' = examples
               /\ prompt' = <<get_prompt(examples)>>
    /\ UNCHANGED <<df, unique_tags, document, last_op, ok, other_document,
                   raised>>
    /\ UNCHANGED <<saved_document, resaved_document, file_validation,
                   manager_validation>>
    /\ UNCHANGED <<normVars, procVars, registryVars>>

\* the caller has taken the prompt
ReturnPrompt ==
    /\ prompt # <<>>
    /\ prompt' = <<>>
    /\ query' = <<>>
    /\ selected' = <<>>
    /\ UNCHANGED <<df, unique_tags, document, last_op, ok, other_document,
                   raised>>
    /\ UNCHANGED <<saved_document, resaved_document, file_validation,
                   manager_validation>>
    /\ UNCHANGED <<normVars, procVars, registryVars>>

\* prompts built from a corpus that is loaded and added to
NextPrompt == AddPosts \/ GetPrompt \/ ReturnPrompt

SpecPrompt == InitCorpus /\ [][NextPrompt]_vars

\* a corpus that is loaded, added to, saved, loaded again and saved again
NextRoundTrip == AddPosts \/ SavePosts \/ LoadAndSave

SpecRoundTrip == InitCorpus /\ [][NextRoundTrip]_vars

-----------------------------------------------------------------------------
(* The data directory and the dataset registry (dataset_manager.py) *)

\* A file name is the sequence of its "_"-separated words with the extension
\* as the last element: raw_x.json is <<"raw", "x", ".json">>.  Every file is
\* in the data directory, so a path is told by its file name.
Json == ".json"

\* file.endswith('.json')
EndsWithJson(file) == Len(file) >= 1 /\ file[Len(file)] = Json

\* file.endswith('_' + word + '.json')
EndsWithWord(file, word) ==
    /\ Len(file) >= 3
    /\ file[Len(file)] = Json
    /\ file[Len(file) - 1] = word

\* str.replace('.json', by): every ".json" of the name is replaced
RECURSIVE ReplaceJson(_, _)
ReplaceJson(file, by) ==
    IF file = <<>> THEN <<>>
    ELSE (IF Head(file) = Json THEN by ELSE <<Head(file)>>)
         \o ReplaceJson(Tail(file), by)

\* str.replace(prefix + '_', ''): every occurrence of the words followed by
\* an underscore is removed
RECURSIVE Without(_, _)
Without(name, words) ==
    IF Len(name) <= Len(words) THEN name
    ELSE IF SubSeq(name, 1, Len(words)) = words
         THEN Without(SubSeq(name, Len(words) + 1, Len(name)), words)
         ELSE <<Head(name)>> \o Without(Tail(name), words)

\* name.startswith(prefix + '_')
StartsWith(name, words) ==
    Len(name) > Len(words) /\ SubSeq(name, 1, Len(words)) = words

\* str.title() of one word
TitleWord(w) ==
    CASE w = "x"         -> "X"
      [] w = "raw"       -> "Raw"
      [] w = "processed" -> "Processed"
      [] w = "posts"     -> "Posts"
      [] w = "chat"      -> "Chat"
      [] w = "history"   -> "History"
      [] w = "metadata"  -> "Metadata"
      [] w = "dataset"   -> "Dataset"
      [] w = "mappings"  -> "Mappings"
      [] OTHER           -> w

\* name.replace('_', ' ').title(), as the sequence of its words
Title(name) == [k \in 1..Len(name) |-> TitleWord(name[k])]

\* the display name of a file, as the sequence of its words
create_display_name(filename, is_raw) ==
    LET name == ReplaceJson(filename, <<>>)
    IN  IF StartsWith(name, <<"raw">>)
        THEN LET base_name == Title(Without(name, <<"raw">>))
             IN  IF is_raw THEN Append(base_name, "(Raw)") ELSE base_name
        ELSE IF StartsWith(name, <<"processed", "raw">>)
        THEN Title(Without(name, <<"processed", "raw">>))
        ELSE IF StartsWith(name, <<"processed">>)
        THEN Title(Without(name, <<"processed">>))
        ELSE LET clean_name == Title(name)
             IN  IF clean_name = <<"College", "Student", "Posts">>
                 THEN <<"College", "Student", "Journey">>
                 ELSE IF clean_name = <<"Processed", "Posts">>
                 THEN <<"Professional", "Posts">>
                 ELSE IF clean_name = <<"Sample", "Raw", "Dataset">>
                 THEN (IF is_raw THEN <<"Sample", "Dataset", "(Raw)">>
                                 ELSE <<"Sample", "Dataset">>)
                 ELSE clean_name

system_files ==
    {<<"dataset", "mappings", Json>>, <<"prompt", "templates", Json>>,
     <<"generated", "posts", "history", Json>>, <<"analytics", "report", Json>>}

\* variant: only the reserved names are left out of the listings
IsDatasetFile_any_suffix(file) ==
    EndsWithJson(file) /\ file \notin system_files

\* the filter of both listings
IsDatasetFile(file) ==
    /\ EndsWithJson(file)
    /\ ~EndsWithWord(file, "metadata")
    /\ ~EndsWithWord(file, "history")
    /\ file \notin system_files

\* variant: any tags value will do
is_processed_dataset_any_tags(data) ==
    /\ data.kind = "array"
    /\ data.items # <<>>
    /\ data.items[1].text.kind # "absent"
    /\ data.items[1].tags.kind # "absent"

\* _is_processed_dataset: a non-empty list whose first object has the keys
\* text and tags, tags being a non-empty list; False on every exception
is_processed_dataset(data) ==
    /\ data.kind = "array"
    /\ data.items # <<>>
    /\ data.items[1].text.kind # "absent"
    /\ data.items[1].tags.kind # "absent"
    /\ data.items[1].tags.kind = "list"
    /\ Len(data.items[1].tags.items) # 0

\* datasets[display_name] = file_path on an insertion-ordered dict
DictSet(datasets, display_name, file_path) ==
    IF \E k \in 1..Len(datasets) : datasets[k].name = display_name
    THEN [k \in 1..Len(datasets) |->
             IF datasets[k].name = display_name
             THEN [name |-> display_name, path |-> file_path]
             ELSE datasets[k]]
    ELSE Append(datasets, [name |-> display_name, path |-> file_path])

\* list(datasets.values())
Values(datasets) == [k \in 1..Len(datasets) |-> datasets[k].path]

\* the orders in which a set of names can be listed
RECURSIVE Orders(_)
Orders(names) ==
    IF names = {} THEN {<<>>}
    ELSE UNION {{<<f>> \o rest : rest \in Orders(names \ {f})} : f \in names}

\* os.listdir: the names of the directory in an arbitrary order.  The names
\* that the filter of the listings skips are left out: where they stand
\* among the others changes no listing.
ListDir(dir) == Orders({f \in DOMAIN dir : IsDatasetFile(f)})

\* get_available_datasets, for the order in which os.listdir gave the names
RECURSIVE get_available_datasets(_, _)
get_available_datasets(dir, listing) ==
    IF listing = <<>> THEN <<>>
    ELSE LET file     == listing[Len(listing)]
             datasets == get_available_datasets(
                             dir, SubSeq(listing, 1, Len(listing) - 1))
         IN  IF IsDatasetFile(file) /\ is_processed_dataset(dir[file])
             THEN DictSet(datasets, create_display_name(file, FALSE), file)
             ELSE datasets

\* get_raw_datasets, for the order in which os.listdir gave the names
RECURSIVE get_raw_datasets(_, _)
get_raw_datasets(dir, listing) ==
    IF listing = <<>> THEN <<>>
    ELSE LET file     == listing[Len(listing)]
             datasets == get_raw_datasets(
                             dir, SubSeq(listing, 1, Len(listing) - 1))
         IN  IF IsDatasetFile(file) /\ ~is_processed_dataset(dir[file])
             THEN DictSet(datasets, create_display_name(file, TRUE), file)
             ELSE datasets

\* "data/processed_posts.json"
DefaultPath == <<"processed", "posts", Json>>

\* get_current_dataset: the path returned and the session state it leaves
get_current_dataset(streamlit, session, dir, listing) ==
    LET datasets  == get_available_datasets(dir, listing)
        first     == IF datasets # <<>> THEN Values(datasets)[1]
                     ELSE DefaultPath
    IN  IF streamlit
        THEN IF session.current_dataset = <<>>
             THEN [path |-> first,
                   session |-> [session EXCEPT !.current_dataset = <<first>>]]
             ELSE [path |-> session.current_dataset[1], session |-> session]
        ELSE [path |-> first, session |-> session]

\* set_current_dataset: the session state it leaves
set_current_dataset(streamlit, session, dataset_path) ==
    IF streamlit
    THEN [current_dataset |-> <<dataset_path>>,
          dataset_changed |->
              <<(IF session.dataset_changed = <<>> THEN 0
                 ELSE session.dataset_changed[1]) + 1>>]
    ELSE session

-----------------------------------------------------------------------------
(* What the processor writes into the data directory *)

\* open(file, 'w') and json.dump(data)
Write(dir, file, data) ==
    [f \in (DOMAIN dir) \cup {file} |-> IF f = file THEN data ELSE dir[f]]

\* os.remove(file)
Remove(dir, file) == [f \in (DOMAIN dir) \ {file} |-> dir[f]]

\* process_uploaded_dataset: data/raw_{name}.json, or data/{name}.json
raw_filename(dataset_name) ==
    IF StartsWith(dataset_name, <<"raw">>)
    THEN dataset_name \o <<Json>>
    ELSE <<"raw">> \o dataset_name \o <<Json>>

\* process_uploaded_dataset: data/processed_{name}.json, or
\* data/processed_raw_{name}.json
processed_filename(dataset_name) ==
    IF StartsWith(dataset_name, <<"raw">>)
    THEN <<"processed">> \o dataset_name \o <<Json>>
    ELSE <<"processed", "raw">> \o dataset_name \o <<Json>>

\* filename.replace('.json', '_metadata.json')
metadata_filename(filename) == ReplaceJson(filename, <<"metadata", Json>>)

\* os.path.join(self.data_dir, "dataset_mappings.json")
mapping_file == <<"dataset", "mappings", Json>>

\* a processed record as json.dump writes it
Dumped(processed_post) ==
    [processed_post EXCEPT !.text = PostText(processed_post.text)]

\* save_processed_dataset: the records, the sidecar, then the mapping file
save_processed_dataset(dir, posts, filename) ==
    LET saved   == Write(dir, filename,
                         Array([k \in 1..Len(posts) |-> Dumped(posts[k])]))
        sidecar == Write(saved, metadata_filename(filename), Dict)
    IN  Write(sidecar, mapping_file, Dict)

\* the loop of process_uploaded_dataset over raw_data, rs[k] being what the
\* collaborator does for the k-th item
RECURSIVE ProcessAll(_, _)
ProcessAll(posts, rs) ==
    IF posts = <<>> THEN <<>>
    ELSE LET n    == Len(posts)
             done == ProcessAll(SubSeq(posts, 1, n - 1), SubSeq(rs, 1, n - 1))
         IN  done \o process_single_post(posts[n], rs[n])

\* a variant of process_uploaded_dataset that writes the raw copy of the
\* upload before it looks at its format
process_uploaded_dataset_copy_first(dir, upload, dataset_name, rs) ==
    LET raw_dir == Write(dir, raw_filename(dataset_name), upload)
    IN  IF upload.kind # "array"
        THEN [dir |-> raw_dir, raised |-> "ValueError"]
        ELSE [dir    |-> save_processed_dataset(
                             raw_dir, ProcessAll(upload.items, rs),
                             processed_filename(dataset_name)),
              raised |-> "none"]

\* process_uploaded_dataset: the directory it leaves and what it raises.
\* An upload that is no JSON list raises ValueError before anything is
\* written, and the handler at the end of the method raises it again.
process_uploaded_dataset(dir, upload, dataset_name, rs) ==
    IF upload.kind # "array" THEN [dir |-> dir, raised |-> "ValueError"]
    ELSE LET posts   == upload.items
             raw_dir == Write(dir, raw_filename(dataset_name), Array(posts))
         IN  [dir    |-> save_processed_dataset(
                             raw_dir, ProcessAll(posts, rs),
                             processed_filename(dataset_name)),
              raised |-> "none"]

\* process_existing_raw_dataset: the directory it leaves.  A raw file that
\* is no JSON raises before anything is written; iterating a JSON object
\* that holds no post yields no record.
process_existing_raw_dataset(dir, raw_path, processed_file_path, rs) ==
    IF dir[raw_path].kind = "invalid" THEN dir
    ELSE save_processed_dataset(dir, ProcessAll(dir[raw_path].items, rs),
                                processed_file_path)

-----------------------------------------------------------------------------
(* The registry as a state machine *)

\* posts of an upload: a bare text, and a text that already carries tags
UploadPosts ==
    {[text |-> PostText(<<"a">>), engagement |-> Absent, tags |-> Absent],
     [text |-> PostText(<<"a">>), engagement |-> Absent,
      tags |-> List(<<"AI">>)]}

Uploads ==
    {Scalar, Dict} \cup {Array(posts) :
                      posts \in UNION {[1..n -> UploadPosts] : n \in 0..MaxUpload}}

\* what the collaborator may answer for an item of an upload: an object
\* without tags, and one with tags
UploadOutcomes ==
    {Parsed(EmptyDict),
     Parsed([EmptyDict EXCEPT !.tags = List(<<"AI", "Jobs">>)])}

DatasetNames == {<<"x">>, <<"raw", "x">>}

\* files that are in the directory before the program runs
TaggedRecord ==
    [text |-> PostText(<<"a">>), engagement |-> Num(5),
     tags |-> List(<<"AI">>)]
StringTaggedRecord ==
    [text |-> PostText(<<"a">>), engagement |-> Num(5), tags |-> Str("AI")]

ChatHistory == <<"chat", "history", Json>>

InitialFiles ==
    {[file |-> DefaultPath, data |-> Array(<<TaggedRecord>>)],
     [file |-> DefaultPath,
      data |-> Array(<<StringTaggedRecord, TaggedRecord>>)],
     [file |-> DefaultPath, data |-> Invalid],
     [file |-> ChatHistory, data |-> Array(<<TaggedRecord>>)]}

\* the directories with at most one content per file name, the history
\* file among them
InitialDirs ==
    {[f \in {e.file : e \in S} |-> (CHOOSE e \in S : e.file = f).data] :
        S \in {T \in SUBSET InitialFiles :
                  /\ \A a, b \in T : a.file = b.file => a = b
                  /\ \E e \in T : e.file = ChatHistory}}

\* paths a caller hands to set_current_dataset and remove_dataset
Paths == {DefaultPath, processed_filename(<<"x">>), raw_filename(<<"x">>)}

\* the module is imported and the DatasetManager constructed
ImportModule ==
    /\ files \in InitialDirs
    /\ STREAMLIT_AVAILABLE \in BOOLEAN
    /\ session_state = EmptySession
    /\ available = <<>>
    /\ raw_datasets = <<>>
    /\ current = <<>>
    /\ last_set = <<>>
    /\ raw_file_path = <<>>
    /\ uploaded_file = <<>>

\* get_available_datasets()
GetAvailableDatasets ==
    /\ \E listing \in ListDir(files) :
           available' = <<get_available_datasets(files, listing)>>
    /\ current' = <<>>
    /\ raw_file_path' = <<>>
    /\ uploaded_file' = <<>>
    /\ UNCHANGED <<files, STREAMLIT_AVAILABLE, session_state, last_set,
                   raw_datasets>>
    /\ UNCHANGED <<normVars, procVars, corpusVars, callerVars>>

\* get_raw_datasets()
GetRawDatasets ==
    /\ \E listing \in ListDir(files) :
           raw_datasets' = <<get_raw_datasets(files, listing)>>
    /\ current' = <<>>
    /\ raw_file_path' = <<>>
    /\ uploaded_file' = <<>>
    /\ UNCHANGED <<files, STREAMLIT_AVAILABLE, session_state, last_set,
                   available>>
    /\ UNCHANGED <<normVars, procVars, corpusVars, callerVars>>

\* get_current_dataset()
GetCurrentDataset ==
    /\ \E listing \in ListDir(files) :
           LET got == get_current_dataset(STREAMLIT_AVAILABLE, session_state,
                                          files, listing)
           IN  /\ current' = <<got.path>>
               /\ session_state' = got.session
    /\ available' = <<>>
    /\ raw_datasets' = <<>>
    /\ raw_file_path' = <<>>
    /\ uploaded_file' = <<>>
    /\ UNCHANGED <<files, STREAMLIT_AVAILABLE, last_set>>
    /\ UNCHANGED <<normVars, procVars, corpusVars, callerVars>>

\* how often dataset_changed has been counted up
Changes == IF session_state.dataset_changed = <<>> THEN 0
           ELSE session_state.dataset_changed[1]

\* set_current_dataset(dataset_path)
SetCurrentDataset ==
    /\ Changes < MaxChanges
    /\ \E dataset_path \in Paths :
           /\ session_state' = set_current_dataset(STREAMLIT_AVAILABLE,
                                                   session_state, dataset_path)
           /\ last_set' = <<dataset_path>>
    /\ available' = <<>>
    /\ raw_datasets' = <<>>
    /\ current' = <<>>
    /\ raw_file_path' = <<>>
    /\ uploaded_file' = <<>>
    /\ UNCHANGED <<files, STREAMLIT_AVAILABLE>>
    /\ UNCHANGED <<normVars, procVars, corpusVars, callerVars>>

\* remove_dataset(dataset_path) of an existing file: the file is removed;
\* when get_current_dataset() returns its path and a processed dataset is
\* left, set_current_dataset is called with the first one.  The directory
\* is listed twice, unchanged in between, in one order.
RemoveDataset ==
    /\ Changes < MaxChanges
    /\ \E dataset_path \in Paths \cap DOMAIN files :
           LET left == Remove(files, dataset_path)
           IN  /\ files' = left
               /\ \E listing \in ListDir(left) :
                      LET got  == get_current_dataset(STREAMLIT_AVAILABLE,
                                                      session_state, left, listing)
                          rest == get_available_datasets(left, listing)
                      IN  IF got.path = dataset_path /\ rest # <<>>
                          THEN /\ session_state' =
                                      set_current_dataset(STREAMLIT_AVAILABLE,
                                                          got.session,
                                                          Values(rest)[1])
                               /\ last_set' = <<Values(rest)[1]>>
                          ELSE /\ session_state' = got.session
                               /\ last_set' = last_set
    /\ available' = <<>>
    /\ raw_datasets' = <<>>
    /\ current' = <<>>
    /\ raw_file_path' = <<>>
    /\ uploaded_file' = <<>>
    /\ UNCHANGED STREAMLIT_AVAILABLE
    /\ UNCHANGED <<normVars, procVars, corpusVars, callerVars>>

\* DatasetProcessor.process_uploaded_dataset(uploaded_file, dataset_name);
\* dataset_processor imports streamlit unconditionally
ProcessUploadedDataset ==
    /\ STREAMLIT_AVAILABLE
    /\ \E upload \in Uploads, dataset_name \in DatasetNames :
           \E rs \in [1..Len(upload.items) -> UploadOutcomes] :
               LET run == process_uploaded_dataset(files, upload,
                                                   dataset_name, rs)
               IN  /\ files' = run.dir
                   /\ uploaded_file' = <<[data   |-> upload,
                                          raised |-> run.raised]>>
    /\ available' = <<>>
    /\ raw_datasets' = <<>>
    /\ current' = <<>>
    /\ raw_file_path' = <<>>
    /\ UNCHANGED <<STREAMLIT_AVAILABLE, session_state, last_set>>
    /\ UNCHANGED <<normVars, procVars, corpusVars, callerVars>>

\* destinations a caller hands to process_existing_raw_dataset for a raw
\* path: the processed name of the dataset x, and the raw path itself
Destinations(path) == {processed_filename(<<"x">>), path}

\* DatasetProcessor.process_existing_raw_dataset(raw_file_path,
\* processed_file_path) of an existing file
ProcessExistingRawDataset ==
    /\ STREAMLIT_AVAILABLE
    /\ \E path \in Paths \cap DOMAIN files :
           \E processed_file_path \in Destinations(path) :
               \E rs \in [1..Len(files[path].items) -> UploadOutcomes] :
                   /\ files' = process_existing_raw_dataset(
                                   files, path, processed_file_path, rs)
                   /\ raw_file_path' = <<path>>
    /\ uploaded_file' = <<>>
    /\ available' = <<>>
    /\ raw_datasets' = <<>>
    /\ current' = <<>>
    /\ UNCHANGED <<STREAMLIT_AVAILABLE, session_state, last_set>>
    /\ UNCHANGED <<normVars, procVars, corpusVars, callerVars>>

NextRegistry ==
    \/ GetAvailableDatasets
    \/ GetRawDatasets
    \/ GetCurrentDataset
    \/ SetCurrentDataset
    \/ RemoveDataset
    \/ ProcessUploadedDataset

InitRegistry ==
    NormIdle /\ ProcIdle /\ CorpusIdle /\ ImportModule /\ CallerIdle

SpecRegistry == InitRegistry /\ [][NextRegistry]_vars

\* the directories of ImportModule, and the same with a processed dataset
\* that an earlier session left under the name process_uploaded_dataset
\* gives the dataset x
EarlierDirs ==
    InitialDirs \cup
    {Write(dir, processed_filename(<<"x">>), Array(<<TaggedRecord>>)) :
        dir \in InitialDirs}

\* the module is imported in a data directory earlier sessions have used
ImportModuleLater ==
    /\ files \in EarlierDirs
    /\ STREAMLIT_AVAILABLE \in BOOLEAN
    /\ session_state = EmptySession
    /\ available = <<>>
    /\ raw_datasets = <<>>
    /\ current = <<>>
    /\ last_set = <<>>
    /\ raw_file_path = <<>>
    /\ uploaded_file = <<>>

\* selecting and removing datasets in such a directory
InitRemoval ==
    NormIdle /\ ProcIdle /\ CorpusIdle /\ ImportModuleLater /\ CallerIdle

NextRemoval == GetCurrentDataset \/ SetCurrentDataset \/ RemoveDataset

SpecRemoval == InitRemoval /\ [][NextRemoval]_vars

\* processing runs alone: uploads, and files of the directory processed
\* again, into a file of their own or in place
InitExisting ==
    NormIdle /\ ProcIdle /\ CorpusIdle /\ ImportModule /\ CallerIdle

NextExisting == ProcessUploadedDataset \/ ProcessExistingRawDataset

SpecExisting == InitExisting /\ [][NextExisting]_vars

-----------------------------------------------------------------------------
(* error_handler.py and DatasetManager.validate_dataset: explicit validation *)

\* str.strip() leaves nothing: every character is white space
IsBlank(t) == \A i \in 1..Len(t) : t[i] = NL

\* validate_post_data: "True", or the exception it raises
validate_post_data(post) ==
    IF post.text.kind = "absent" THEN "PostValidationError"
    ELSE IF post.text.kind = "null" \/ post.text.chars = <<>>
            \/ IsBlank(post.text.chars)
    THEN "PostValidationError"
    ELSE IF post.engagement.kind \notin {"absent", "num"}
    THEN "PostValidationError"
    ELSE IF post.line_count.kind \notin {"absent", "num"}
    THEN "PostValidationError"
    ELSE IF post.language.kind # "absent"
            /\ ~InStrings(post.language, {"English", "Hinglish"})
    THEN "PostValidationError"
    ELSE IF post.tags.kind \notin {"absent", "list"}
    THEN "PostValidationError"
    ELSE IF post.length.kind # "absent"
            /\ ~InStrings(post.length, {"Short", "Medium", "Long"})
    THEN "PostValidationError"
    ELSE "True"

\* validate_dataset_file: "True", or the exception it raises
validate_dataset_file(doc) ==
    IF doc.kind = "missing" THEN "DatasetError"
    ELSE IF doc.kind = "invalid" THEN "DatasetError"
    ELSE IF doc.kind # "array" THEN "DatasetError"
    ELSE IF Len(doc.items) = 0 THEN "True"
    ELSE IF \E i \in 1..Len(doc.items) :
                validate_post_data(doc.items[i]) = "PostValidationError"
    THEN "DatasetError"
    ELSE "True"

\* DatasetManager.validate_dataset: the pair it returns
validate_dataset(doc) ==
    IF doc.kind = "missing"
    THEN [valid |-> FALSE, message |-> "Dataset file not found"]
    ELSE IF doc.kind = "invalid"
    THEN [valid |-> FALSE, message |-> "Invalid JSON format"]
    ELSE IF doc.kind # "array"
    THEN [valid |-> FALSE, message |-> "Dataset must be a list of posts"]
    ELSE IF doc.items = <<>>
    THEN [valid |-> FALSE, message |-> "Dataset is empty"]
    ELSE IF doc.items[1].text.kind = "absent"
    THEN [valid |-> FALSE, message |-> "Posts missing required field: text"]
    ELSE [valid |-> TRUE, message |-> "Dataset is valid"]

\* objects without a text, and with a null, an empty and a blank one
TextlessObjects ==
    {[text |-> t, engagement |-> Num(5), line_count |-> Num(1),
      language |-> Str("English"), tags |-> List(<<"AI", "Jobs">>),
      length |-> Str("Short")] :
        t \in {NoText, NullText, PostText(<<>>), PostText(<<NL>>)}}

ValidationObjects == Objects \cup TextlessObjects

\* the documents put to the validators
ValidationDocuments ==
    {Missing, Invalid, Scalar} \cup {Object(o) : o \in ValidationObjects}
        \cup {Array(posts) :
                 posts \in UNION {[1..k -> ValidationObjects] : k \in 0..MaxDoc}}

\* a document at a path; no corpus is loaded from it
DocumentAtPath ==
    /\ document \in ValidationDocuments
    /\ df = EmptyFrame
    /\ unique_tags = {}
    /\ query = <<>>
    /\ selected = <<>>
    /\ last_op = "none"
    /\ ok = TRUE
    /\ other_document = <<>>
    /\ raised = "none"

\* validate_dataset_file(file_path)
ValidateDatasetFile ==
    /\ file_validation = <<>>
    /\ file_validation' = <<validate_dataset_file(document)>>
    /\ UNCHANGED <<prompt, saved_document, resaved_document,
                   manager_validation>>
    /\ UNCHANGED <<normVars, procVars, corpusVars, registryVars>>

\* dataset_manager.validate_dataset(dataset_path)
ValidateDataset ==
    /\ manager_validation = <<>>
    /\ manager_validation' = <<validate_dataset(document)>>
    /\ UNCHANGED <<prompt, saved_document, resaved_document, file_validation>>
    /\ UNCHANGED <<normVars, procVars, corpusVars, registryVars>>

InitValidate ==
    NormIdle /\ ProcIdle /\ DocumentAtPath /\ RegistryIdle /\ CallerIdle

NextValidate == ValidateDatasetFile \/ ValidateDataset

SpecValidate == InitValidate /\ [][NextValidate]_vars

-----------------------------------------------------------------------------
(* Properties of the Annotation Normalizer and of the two length rules *)

\* number of newline-separated segments: one more than the newlines
Segments(t) == Cardinality({i \in 1..Len(t) : t[i] = NL}) + 1

\* the bucket rule of the Normalizer as the specification words it
BucketOf(n) ==
    IF n <= 5 THEN "Short" ELSE IF n \in 6..10 THEN "Medium" ELSE "Long"

\* C6: the Normalizer returns line_count = the number of newline-separated
\* segments of the text and length = Short (<= 5), Medium (6..10), Long (> 10),
\* whatever line_count or length the raw metadata supplies.
C6_LengthFromText ==
    normalized_metadata # <<>> =>
        LET out == normalized_metadata[1]
            n   == Segments(text)
        IN  /\ out.line_count = Num(n)
            /\ n <= 5 => out.length = Str("Short")
            /\ (6 <= n /\ n <= 10) => out.length = Str("Medium")
            /\ n > 10 => out.length = Str("Long")

\* an 11-line text normalized with a supplied line_count 3 / length Long ...
C6_Witness ==
    /\ normalized_metadata # <<>>
    /\ Segments(text) = 11
    /\ metadata.line_count = Num(3)
    /\ normalized_metadata[1].line_count = Num(11)

\* C7: categorize_length and the Normalizer's rule give the same bucket for
\* every line_count >= 1 except 5, where categorize_length gives Medium and
\* the Normalizer gives Short.
C7_RulesDifferOnlyAtFive ==
    (normalized_metadata # <<>> /\ backfill # <<>>) =>
        LET n == Segments(text)
        IN  /\ n >= 1
            /\ n # 5 => Str(backfill[1]) = normalized_metadata[1].length
            /\ n = 5 => /\ backfill[1] = "Medium"
                        /\ normalized_metadata[1].length = Str("Short")

C7_Witness ==
    /\ normalized_metadata # <<>>
    /\ backfill = <<"Medium">>
    /\ Segments(text) = 5

\* C8: for every raw metadata the bundle's language, tone and target_audience
\* lie in their enumerations; a supplied valid value is kept, any other value
\* (absent included) becomes English / Professional / General.
Kept(v, valid, default) ==
    IF \E s \in valid : v = Str(s) THEN v ELSE Str(default)

C8_EnumerationsValidated ==
    normalized_metadata # <<>> =>
        LET out == normalized_metadata[1]
        IN  /\ out.language \in {Str(s) : s \in {"English", "Hinglish"}}
            /\ out.tone \in {Str(s) : s \in valid_tones}
            /\ Cardinality(valid_tones) = 5
            /\ out.target_audience \in {Str(s) : s \in valid_audiences}
            /\ Cardinality(valid_audiences) = 5
            /\ out.language = Kept(metadata.language, {"English", "Hinglish"},
                                   "English")
            /\ out.tone = Kept(metadata.tone, valid_tones, "Professional")
            /\ out.target_audience =
                   Kept(metadata.target_audience, valid_audiences, "General")

\* a wrongly-cased language, an unknown tone and a numeric audience replaced
C8_Witness ==
    /\ normalized_metadata # <<>>
    /\ metadata.language = Str("hinglish")
    /\ metadata.tone = Str("Angry")
    /\ metadata.target_audience = Num(1)
    /\ normalized_metadata[1].language = Str("English")

\* C9: tags is [s] for a string s, the first min(4, n) entries in order for a
\* sequence of n entries, empty otherwise; never more than 4 entries.
C9_TagsNormalized ==
    normalized_metadata # <<>> =>
        LET out == normalized_metadata[1].tags
            in  == metadata.tags
        IN  /\ out.kind = "list"
            /\ Len(out.items) <= 4
            /\ in.kind = "str" => out.items = <<in.str>>
            /\ in.kind = "list" =>
                   /\ Len(out.items) =
                          (IF Len(in.items) < 4 THEN Len(in.items) ELSE 4)
                   /\ \A i \in 1..Len(out.items) : out.items[i] = in.items[i]
            /\ in.kind \notin {"str", "list"} => out.items = <<>>

\* a list of five tags cut to its first four
C9_Witness ==
    /\ normalized_metadata # <<>>
    /\ metadata.tags.kind = "list"
    /\ Len(metadata.tags.items) = 5
    /\ Len(normalized_metadata[1].tags.items) = 4

\* a bundle with every field in its value set, at most 4 tags, and
\* line_count / length consistent with the text
ValidBundle(m, t) ==
    /\ m.language \in {Str(s) : s \in {"English", "Hinglish"}}
    /\ m.tone \in {Str(s) : s \in valid_tones}
    /\ m.target_audience \in {Str(s) : s \in valid_audiences}
    /\ m.tags.kind = "list" /\ Len(m.tags.items) <= 4
    /\ m.line_count = Num(Segments(t))
    /\ m.length = Str(BucketOf(Segments(t)))

\* C10: normalizing an already-valid bundle with the same text returns it
\* unchanged, and normalizing a normalized bundle again changes nothing.
C10_Idempotent ==
    normalized_metadata # <<>> =>
        /\ ValidBundle(metadata, text) => normalized_metadata[1] = metadata
        /\ normalize_metadata(normalized_metadata[1], text)
               = normalized_metadata[1]

\* a valid bundle carrying four tags has been normalized
C10_Witness ==
    /\ normalized_metadata # <<>>
    /\ ValidBundle(metadata, text)
    /\ Len(metadata.tags.items) = 4
    /\ Segments(text) = 6

-----------------------------------------------------------------------------
(* Properties of the Raw Dataset Processor *)

\* the items consumed so far whose text is present and non-empty
Eligible == {k \in 1..post_index : raw_data[k].text.kind = "str"
                          /\ Len(raw_data[k].text.chars) > 0}

\* the item behind the n-th record, counting eligible items in input order
ItemOf(n) == CHOOSE k \in Eligible : Cardinality({j \in Eligible : j <= k}) = n

\* whether the collaborator call of item k failed
Failed(k) == responses[k].kind \in {"raise", "nonjson", "nondict"}

\* C3: process yields exactly one record for each item whose text is present
\* and non-empty, none for the others, in the order of the input items.
C3_OneRecordPerTextInOrder ==
    /\ Len(processed_posts) = Cardinality(Eligible)
    /\ \A n \in 1..Len(processed_posts) :
           /\ processed_posts[n].text = raw_data[ItemOf(n)].text.chars
           /\ processed_posts[n].engagement =
                  (IF raw_data[ItemOf(n)].engagement = Absent THEN Num(0)
                   ELSE raw_data[ItemOf(n)].engagement)

\* a finished run over three items that skipped the middle one
C3_Witness ==
    /\ pstatus = "done"
    /\ Len(raw_data) = 3
    /\ Eligible = {1, 3}
    /\ Len(processed_posts) = 2
    /\ processed_posts[1].text # processed_posts[2].text

\* C4: whichever calls of the collaborator fail, the run completes, every item
\* with non-empty text has its record, and the record of an item whose call
\* succeeded is the one its own response determines, whatever happened to
\* the other items.
C4_FailuresStayLocal ==
    /\ pstatus \in {"idle", "running", "done"}
    /\ (pstatus = "running" /\ post_index = Len(raw_data)) => ENABLED FinishProcess
    /\ Len(processed_posts) = Cardinality(Eligible)
    /\ \A n \in 1..Len(processed_posts) :
           LET k == ItemOf(n)
           IN  ~Failed(k) =>
                   processed_posts[n] =
                       ProcessedPost(raw_data[k],
                                     normalize_metadata(responses[k].meta,
                                                        raw_data[k].text.chars))

\* a finished run whose first call failed and whose second succeeded
C4_Witness ==
    /\ pstatus = "done"
    /\ Len(processed_posts) >= 2
    /\ Failed(ItemOf(1))
    /\ ~Failed(ItemOf(2))
    /\ processed_posts[2].language = Str("Hinglish")

\* C5: the record of a post whose collaborator call failed has language
\* English, tags [General], tone Professional, target_audience General, and
\* line_count / length from the text alone.
C5_FallbackBundle ==
    \A n \in 1..Len(processed_posts) :
        Failed(ItemOf(n)) =>
            LET rec == processed_posts[n]
                cnt == Segments(raw_data[ItemOf(n)].text.chars)
            IN  /\ rec.language = Str("English")
                /\ rec.tags = List(<<"General">>)
                /\ rec.tone = Str("Professional")
                /\ rec.target_audience = Str("General")
                /\ rec.line_count = Num(cnt)
                /\ rec.length = Str(BucketOf(cnt))

\* a six-line post whose response was no JSON object got the Medium fallback
C5_Witness ==
    /\ pstatus = "done"
    /\ \E n \in 1..Len(processed_posts) :
           /\ responses[ItemOf(n)].kind = "nondict"
           /\ processed_posts[n].length = Str("Medium")
           /\ processed_posts[n].tags = List(<<"General">>)

-----------------------------------------------------------------------------
(* Properties of the Example Selector and of the corpus order *)

\* the selector's contract: tag is a member of the record's tags sequence,
\* and language and length are equal, exactly and case-sensitively
Matches(r, q) ==
    /\ r.tags.kind = "list"
    /\ \E j \in 1..Len(r.tags.items) : r.tags.items[j] = q[3]
    /\ r.language.kind = "str" /\ r.language.str = q[2]
    /\ r.length.kind = "str" /\ r.length.str = q[1]

\* C1: select returns exactly the records of the corpus with tag in tags,
\* language = language and length = length: each of them, and no other.
C1_SelectExact ==
    query # <<>> =>
        /\ \A k \in 1..Len(df.rows) :
               Matches(df.rows[k], query) => df.rows[k] \in Range(selected)
        /\ \A r \in Range(selected) : r \in Range(df.rows) /\ Matches(r, query)
        /\ Len(selected) =
               Cardinality({k \in 1..Len(df.rows) : Matches(df.rows[k], query)})

\* a query for the tag "ai" that returned some, but not all, of three records
C1_Witness ==
    /\ query # <<>>
    /\ query[3] = "ai"
    /\ Len(df.rows) = 3
    /\ Len(selected) = 1
    /\ \E k \in 1..3 : "AI" \in Range(df.rows[k].tags.items)

\* the rows of a sequence that belong to S, in the order of the sequence
RECURSIVE Restrict(_, _)
Restrict(rows, S) ==
    IF rows = <<>> THEN <<>>
    ELSE (IF Head(rows) \in S THEN <<Head(rows)>> ELSE <<>>)
         \o Restrict(Tail(rows), S)

TextsOf(rows) == [k \in 1..Len(rows) |-> rows[k].text]

FirstAt(rows, r) == CHOOSE k \in 1..Len(rows) :
                        rows[k] = r /\ \A j \in 1..(k - 1) : rows[j] # r

\* the records of `old` that `new` keeps stand in their old order, ahead of
\* every record that is not from `old`
OrderKept(old, new) ==
    \A a, b \in 1..Len(new) :
        (a < b /\ new[b] \in Range(old)) =>
            /\ new[a] \in Range(old)
            /\ new[a] # new[b] => FirstAt(old, new[a]) < FirstAt(old, new[b])

\* the corpus right after load, and what select returns
C2_LoadAndSelectOrder ==
    /\ last_op = "init" =>
           \/ df.rows = <<>>
           \/ TextsOf(df.rows) = TextsOf(document.items)
    /\ query # <<>> => selected = Restrict(df.rows, Range(selected))

\* what one step does to the corpus
C2_StepKeepsOrder ==
    /\ (query' # query) => df' = df
    /\ (df' # df /\ last_op' = "add") =>
           /\ Len(df'.rows) >= Len(df.rows)
           /\ SubSeq(df'.rows, 1, Len(df.rows)) = df.rows
    /\ (df' # df /\ last_op' = "merge") => OrderKept(df.rows, df'.rows)

\* C2: select returns records in corpus order; the corpus order after load is
\* the order of the objects of the document; records added by add_posts
\* follow all earlier records; no operation re-sorts the corpus.
C2_OrderPreserved == []C2_LoadAndSelectOrder /\ [][C2_StepKeepsOrder]_vars

\* two records were added behind two loaded ones and a query returned two
C2_Witness ==
    /\ last_op = "add"
    /\ Len(document.items) = 2
    /\ Len(df.rows) = 3
    /\ query # <<>>
    /\ Len(selected) = 2
    /\ selected[1] # selected[2]

-----------------------------------------------------------------------------
(* Merging: C11, C12 *)

\* no two records of the sequence carry the same text
DistinctTexts(rows) ==
    \A a, b \in 1..Len(rows) : rows[a].text = rows[b].text => a = b

\* C11: after merge(A, B), for every A and B (B empty or missing and A with
\* repeated texts included), no two records of the corpus have the same text.
C11_MergeLeavesNoRepeatedText ==
    other_document # <<>> => DistinctTexts(df.rows)

\* the elements of q at the positions in I, in the order of q
SubseqAt(q, I) ==
    [n \in 1..Cardinality(I) |->
        q[CHOOSE k \in I : Cardinality({j \in I : j <= k}) = n]]

\* the positions of q whose text occurs at no earlier position of q
FirstOccurrences(q) ==
    {k \in 1..Len(q) : \A j \in 1..(k - 1) : q[j].text # q[k].text}

\* the records of B whose text occurs neither in A nor earlier in B
NewIn(A, B) ==
    SubseqAt(B, {k \in FirstOccurrences(B) :
                    \A j \in 1..Len(A) : A[j].text # B[k].text})

\* the corpus a document loads as
CorpusOf(doc) == load_posts(doc).df.rows

\* C12 as stated: merge(A, B) yields A's records in A's order followed by
\* the records of B whose text occurs neither in A nor earlier in B.
C12_MergeIsAThenNewOfB ==
    [][other_document' # <<>> =>
          df'.rows = df.rows \o NewIn(df.rows, CorpusOf(other_document'[1]))]_vars

\* C12, amended: when B has records, merge(A, B) yields the records of A that
\* are the first of their text, in A's order, followed by the records of B
\* whose text occurs neither in A nor earlier in B, in B's order, so that of
\* a text in both the record kept is A's; when B has none, A is left as is.
C12_MergeKeepsFirstOccurrences ==
    [][other_document' # <<>> =>
          LET A == df.rows
              B == CorpusOf(other_document'[1])
          IN  IF B = <<>>
              THEN df' = df
              ELSE df'.rows = SubseqAt(A, FirstOccurrences(A)) \o NewIn(A, B)]_vars

\* a corpus loaded with a repeated text was merged with a one-record corpus
\* of another text: the repeat is gone and the new record is last
C12_Witness ==
    /\ other_document # <<>>
    /\ Len(CorpusOf(other_document[1])) = 1
    /\ last_op = "merge"
    /\ Len(document.items) = 2
    /\ document.items[1].text = document.items[2].text
    /\ Len(df.rows) = 2
    /\ df.rows[1] = CorpusOf(document)[1]
    /\ df.rows[2] = CorpusOf(other_document[1])[1]

-----------------------------------------------------------------------------
(* Loading: C13, C14, C15, C16 *)

\* C13: loading a path at which no document exists raises nothing: the corpus
\* has zero records and an empty unique-tag set, and select returns the empty
\* sequence for every query.
C13_MissingDocumentLoadsEmpty ==
    (last_op = "init" /\ document = Missing) =>
        /\ raised = "none"
        /\ df.rows = <<>>
        /\ unique_tags = {}
        /\ query # <<>> => selected = <<>>

\* a query was put to the corpus of a missing document
C13_Witness ==
    /\ last_op = "init"
    /\ document = Missing
    /\ query # <<>>
    /\ selected = <<>>

\* C14: loading a document that is not valid JSON, or valid JSON that is not
\* an array of objects (a bare object, a scalar), fails with FormatError.
C14_BadDocumentRaisesFormatError ==
    (last_op = "init" /\ document.kind \in {"invalid", "scalar", "object"}) =>
        raised = "FormatError"

\* the Corpus Store's bucket of a line count: below 5, 5 to 10, above
StoreBucketOf(n) ==
    IF n < 5 THEN "Short" ELSE IF n <= 10 THEN "Medium" ELSE "Long"

\* C15: after load, for each object of the document on its own: a missing
\* line_count is the number of newline-separated segments of its text, a
\* missing length is the Corpus Store bucket of its line_count, a missing
\* engagement is 0; also when only some objects carry the field.
C15_BackfillPerObject ==
    (last_op = "init" /\ document.kind \in {"array", "object"}
                     /\ Len(df.rows) = Len(document.items)) =>
        \A k \in 1..Len(df.rows) :
            LET o == document.items[k]
                r == df.rows[k]
            IN  /\ o.line_count = Absent =>
                       r.line_count = Num(Segments(o.text.chars))
                /\ o.length = Absent =>
                       /\ r.line_count.kind = "num"
                       /\ r.length = Str(StoreBucketOf(r.line_count.num))
                /\ o.engagement = Absent => r.engagement = Num(0)

\* C16: no record of a corpus, after load or add_posts, has a length outside
\* Short / Medium / Long or a language outside English / Hinglish.
C16_FieldsInDeclaredSets ==
    last_op \in {"init", "add"} =>
        \A k \in 1..Len(df.rows) :
            /\ InStrings(df.rows[k].length, {"Short", "Medium", "Long"})
            /\ InStrings(df.rows[k].language, {"English", "Hinglish"})

-----------------------------------------------------------------------------
(* The unique tags: C17 *)

\* the tags of a record: the members of its tags sequence
TagsOfRecord(r) == IF r.tags.kind = "list" THEN Range(r.tags.items) ELSE {}

-----------------------------------------------------------------------------
(* The registry's listings: C18, C19 *)

\* the first record of the document, if any, has both text and a non-empty
\* tags sequence
FirstRecordTagged(data) ==
    /\ data.kind = "array"
    /\ Len(data.items) >= 1
    /\ data.items[1].text.kind # "absent"
    /\ data.items[1].tags.kind = "list"
    /\ Len(data.items[1].tags.items) >= 1

\* the .json files of the directory that are not excluded by name
Listable ==
    {f \in DOMAIN files :
        /\ f[Len(f)] = Json
        /\ ~(Len(f) >= 3 /\ f[Len(f) - 1] \in {"metadata", "history"})
        /\ f \notin system_files}

PathsIn(listing) == {listing[1][k].path : k \in 1..Len(listing[1])}
NamesIn(listing) == {listing[1][k].name : k \in 1..Len(listing[1])}

\* C18: every non-excluded .json document of the data directory is
\* classified processed iff its first record has both text and a non-empty
\* tags sequence, and raw otherwise (also when it has no first record); no
\* path is in both listings.  A listing is keyed by display name: a document
\* is listed under its display name unless another of its class has taken it.
C18_ProcessedIffFirstRecordTagged ==
    /\ \A f \in Listable :
           is_processed_dataset(files[f]) <=> FirstRecordTagged(files[f])
    /\ available # <<>> =>
           /\ PathsIn(available) \subseteq
                  {f \in Listable : FirstRecordTagged(files[f])}
           /\ \A f \in Listable :
                  FirstRecordTagged(files[f]) =>
                      create_display_name(f, FALSE) \in NamesIn(available)
    /\ raw_datasets # <<>> =>
           /\ PathsIn(raw_datasets) \subseteq
                  {f \in Listable : ~FirstRecordTagged(files[f])}
           /\ \A f \in Listable :
                  ~FirstRecordTagged(files[f]) =>
                      create_display_name(f, TRUE) \in NamesIn(raw_datasets)
    /\ (available # <<>> /\ raw_datasets # <<>>) =>
           PathsIn(available) \cap PathsIn(raw_datasets) = {}

\* both listings of a directory in which an upload that carried tags is
\* listed as processed, while the raw listing has its processed file, whose
\* first record has no tags, and a document whose first record has a string
\* for tags ahead of a tagged record
C18_Witness ==
    /\ available # <<>>
    /\ raw_datasets # <<>>
    /\ <<"raw", "x", Json>> \in PathsIn(available)
    /\ \E f \in PathsIn(raw_datasets) :
           /\ Len(files[f].items) = 1
           /\ files[f].items[1].tags = List(<<>>)
    /\ \E f \in PathsIn(raw_datasets) :
           /\ Len(files[f].items) = 2
           /\ files[f].items[1].tags.kind = "str"

\* the names that are kept out of the listings
Excluded(f) ==
    \/ Len(f) >= 3 /\ f[Len(f)] = Json /\ f[Len(f) - 1] = "metadata"
    \/ Len(f) >= 3 /\ f[Len(f)] = Json /\ f[Len(f) - 1] = "history"
    \/ f \in {<<"dataset", "mappings", Json>>, <<"prompt", "templates", Json>>,
               <<"generated", "posts", "history", Json>>,
               <<"analytics", "report", Json>>}

\* C19: a document whose name ends in _metadata.json or _history.json, or is
\* a reserved file name, is in neither listing, whatever it holds; so the
\* sidecar and dataset_mappings.json the processor writes are in neither,
\* after any sequence of processing runs.
C19_ExcludedNamesNeverListed ==
    \A listing \in {available, raw_datasets} :
        listing # <<>> =>
            \A f \in PathsIn(listing) :
                /\ ~Excluded(f)
                /\ f # <<"dataset", "mappings", Json>>
                /\ \A n \in DatasetNames :
                       f # metadata_filename(processed_filename(n))

\* the processor has written a sidecar and the mapping file, a history file
\* holds tagged records, and both listings were taken and have entries
C19_Witness ==
    /\ <<"processed", "raw", "x", "metadata", Json>> \in DOMAIN files
    /\ <<"dataset", "mappings", Json>> \in DOMAIN files
    /\ \E f \in DOMAIN files :
           /\ f[Len(f) - 1] = "history"
           /\ FirstRecordTagged(files[f])
    /\ available # <<>> /\ PathsIn(available) # {}
    /\ raw_datasets # <<>> /\ PathsIn(raw_datasets) # {}

-----------------------------------------------------------------------------
(* The current dataset: C20 *)

\* C20: after set_current(p), every get_current() returns p until the next
\* set_current call; after several calls the slot holds the last path.
C20_GetReturnsLastSet ==
    (last_set # <<>> /\ current # <<>>) => current = last_set

-----------------------------------------------------------------------------
(* The current dataset over time: C21 *)

\* the step is a call of set_current_dataset by the caller: the directory is
\* as it was and the session state is what the call leaves
ExplicitSet ==
    /\ files' = files
    /\ last_set' # <<>>
    /\ session_state' = set_current_dataset(STREAMLIT_AVAILABLE, session_state,
                                            last_set'[1])

\* the paths of the processed datasets of a directory
ProcessedIn(dir) ==
    {f \in DOMAIN dir : IsDatasetFile(f) /\ is_processed_dataset(dir[f])}

\* what one step does to the current dataset path
C21_StepKeepsSlot ==
    /\ (session_state.current_dataset = <<>> /\ current' # <<>>) =>
           /\ session_state'.current_dataset = current'
           /\ IF ProcessedIn(files) = {} THEN current'[1] = DefaultPath
              ELSE current'[1] \in ProcessedIn(files)
    /\ (session_state.current_dataset # <<>> /\ ~ExplicitSet) =>
           session_state'.current_dataset = session_state.current_dataset

\* C21: the current dataset path is initialized on the first read to the
\* first available processed dataset, or to data/processed_posts.json when
\* there is none, and from then on no operation but a set_current call changes
\* it: reads, scans, processing runs and deleting its file leave it as it is.
C21_SlotChangedOnlyBySet == [][C21_StepKeepsSlot]_vars

-----------------------------------------------------------------------------
(* The raw input of a processing run: C22 *)

\* C22: no processing run writes the processed corpus or its sidecar to the
\* path of the raw document it read: whatever raw path and destination the
\* caller supplies, the raw document holds after the run what it held before.
C22_RawInputUnchanged ==
    [][raw_file_path' # <<>> =>
          files'[raw_file_path'[1]] = files[raw_file_path'[1]]]_vars

-----------------------------------------------------------------------------
(* The records of a processing run: C23 *)

\* C23: every record produced by process is a valid processed Post Record:
\* non-empty text, between 1 and 4 tags, length Short / Medium / Long and
\* language English / Hinglish, whether its metadata came from the Normalizer
\* or from the fallback.
C23_RecordsAreValid ==
    \A n \in 1..Len(processed_posts) :
        LET rec == processed_posts[n]
        IN  /\ Len(rec.text) >= 1
            /\ rec.tags.kind = "list"
            /\ 1 <= Len(rec.tags.items) /\ Len(rec.tags.items) <= 4
            /\ InStrings(rec.length, {"Short", "Medium", "Long"})
            /\ InStrings(rec.language, {"English", "Hinglish"})

-----------------------------------------------------------------------------
(* Explicit validation: C24 *)

\* the record lacks a text or has an empty one
TextMissingOrEmpty(o) == o.text.kind # "str" \/ Len(o.text.chars) = 0

\* whether each validator that looked at the document accepted it
Acceptances ==
    (IF file_validation = <<>> THEN {} ELSE {file_validation[1] = "True"})
        \cup (IF manager_validation = <<>> THEN {}
              ELSE {manager_validation[1].valid})

\* C24: explicit validation of an existing corpus document rejects it
\* whenever a record at any position has a missing or empty text, and accepts
\* it only if every record passes the required-field check.
C24_ValidationChecksEveryRecord ==
    \A accepted \in Acceptances :
        document.kind = "array" =>
            /\ (\E k \in 1..Len(document.items) :
                    TextMissingOrEmpty(document.items[k])) => ~accepted
            /\ accepted =>
                   \A k \in 1..Len(document.items) :
                       ~TextMissingOrEmpty(document.items[k])

-----------------------------------------------------------------------------
(* Saving and loading again: C25 *)

\* C25: for every corpus, saving it to P, loading P and saving again writes
\* the same JSON array as the first save: the same records with the same
\* field values in the same order.
C25_SaveLoadSaveIsSave ==
    resaved_document # <<>> => resaved_document = saved_document

-----------------------------------------------------------------------------
(* One collaborator call at a time: C26 *)

\* the items, decided or being processed, that have a non-empty text
Invoked ==
    {k \in 1..(post_index + Cardinality(in_flight)) : HasText(raw_data[k])}

\* C26: during process the collaborator is invoked exactly once for each item
\* with non-empty text and never for a skipped item, the invocations occur in
\* input order, and the invocation for an item begins only after the record or
\* skip of the previous item has been decided: two are never in flight.
C26_OneCallAtATimeInOrder ==
    /\ Cardinality(in_flight) <= 1
    /\ \A k \in in_flight : k = post_index + 1 /\ Len(responses) = post_index
    /\ Len(invocations) = Cardinality(Invoked)
    /\ \A k \in Invoked : \E n \in 1..Len(invocations) : invocations[n] = k
    /\ \A n \in 1..Len(invocations) : HasText(raw_data[invocations[n]])
    /\ \A a, b \in 1..Len(invocations) : a < b => invocations[a] < invocations[b]
    /\ \A k \in 1..Len(responses) :
           responses[k] = NoCall <=> ~HasText(raw_data[k])
    /\ pstatus = "done" => Len(invocations) = Cardinality(Eligible)

\* the third item's call is outstanding, the first was answered and the
\* second skipped
C26_Witness ==
    /\ pstatus = "running"
    /\ Len(raw_data) = 3
    /\ in_flight = {3}
    /\ invocations = <<1, 3>>
    /\ responses[2] = NoCall
    /\ Len(processed_posts) = 1

-----------------------------------------------------------------------------
(* The exemplars of a prompt: C27 *)

\* C27: get_prompt includes as exemplars exactly the first min(2, n) records
\* of select(length, language, tag), in select's order, n being the number
\* of matches; when n = 0 the prompt has no examples section.
C27_FirstTwoMatchesAreExemplars ==
    prompt # <<>> =>
        LET matches == get_filtered_posts(df, query[1], query[2], query[3])
            n       == Len(matches)
            m       == IF n < 2 THEN n ELSE 2
        IN  /\ Len(prompt[1].examples) = m
            /\ \A i \in 1..m :
                   /\ prompt[1].examples[i].post_text = matches[i].text
                   /\ prompt[1].examples[i].number = i
            /\ n = 0 => ~prompt[1].heading /\ prompt[1].examples = <<>>
            /\ n > 0 => prompt[1].heading

\* a prompt for a query that three records match, the third being left out
C27_Witness ==
    /\ prompt # <<>>
    /\ Len(selected) = 3
    /\ Len(prompt[1].examples) = 2
    /\ selected[3].text # selected[2].text
    /\ selected[1].text # selected[2].text

-----------------------------------------------------------------------------
(* Merging with nothing: C28 *)

\* a document that is missing, unreadable or empty
NothingToMerge(doc) == doc \in {Missing, Invalid, Scalar, Array(<<>>)}

\* C28: merge_datasets with another document that is missing, unreadable or
\* empty returns False and leaves the records of the corpus, their order and
\* the unique-tag set unchanged.
C28_MergeWithNothingChangesNothing ==
    [][(other_document' # <<>> /\ NothingToMerge(other_document'[1])) =>
          /\ ok' = FALSE
          /\ df' = df
          /\ unique_tags' = unique_tags]_vars

\* a corpus of two records with tags right after a merge with a document
\* that is missing, unreadable or empty
C28_Witness ==
    /\ other_document # <<>>
    /\ NothingToMerge(other_document[1])
    /\ last_op = "merge"
    /\ ~ok
    /\ Len(df.rows) = 2
    /\ df.rows[1].text # df.rows[2].text
    /\ Cardinality(unique_tags) >= 2


\* C29: a process_uploaded_dataset call whose upload is JSON but no list
\* raises an error and leaves every file as it was: no raw document, no
\* processed document, no sidecar and no mapping file is created or changed.
C29_NonListUploadWritesNothing ==
    [][(uploaded_file' # <<>> /\ uploaded_file'[1].data.kind # "array")
          => /\ uploaded_file'[1].raised # "none"
             /\ files' = files]_vars

\* an upload that is a JSON object was refused in a data directory that
\* already holds a processed dataset, its raw copy and the mapping file
C29_Witness ==
    /\ uploaded_file # <<>>
    /\ uploaded_file[1].data = Dict
    /\ uploaded_file[1].raised = "ValueError"
    /\ {raw_filename(<<"x">>), processed_filename(<<"x">>), mapping_file}
           \subseteq DOMAIN files


-----------------------------------------------------------------------------
(* The current dataset after a removal: C30 *)

\* a step that removes the file get_current_dataset has just returned leaves
\* a remaining processed dataset current, or the removed path when no
\* processed dataset remains
C30_StepSwitchesOrKeeps ==
    \A p \in (DOMAIN files) \ (DOMAIN files') :
        current = <<p>> =>
            \A listing \in ListDir(files') :
                LET now == get_current_dataset(STREAMLIT_AVAILABLE',
                                               session_state', files',
                                               listing).path
                IN  IF ProcessedIn(files') # {}
                    THEN now \in ProcessedIn(files')
                    ELSE now = p

\* C30: after remove_dataset(p) has removed p, p being the current dataset:
\* when a processed dataset remains in the data directory the current path is
\* the path of one of them, and when none remains the current path is still p.
C30_RemovalSwitchesOrKeeps == [][C30_StepSwitchesOrKeeps]_vars

\* the same, where session state is available
C30_WithSessionState ==
    [][STREAMLIT_AVAILABLE => C30_StepSwitchesOrKeeps]_vars

=============================================================================
